---- MODULE Spec2Model ----
(***************************************************************************)
(* Model of intuitive_file_mover.py (class FileMover):                     *)
(*   build_local_directory_index / scan_local_directory  (lines 66-151)    *)
(*   simple_search                                        (lines 153-200)  *)
(*   get_directories, select_directory                    (lines 202-366)  *)
(*   search_directories                                   (lines 430-514)  *)
(*   search_files_in_directory                            (lines 516-594)  *)
(*   move_files, run                                      (lines 612-706)  *)
(*                                                                         *)
(* Strings are sequences of code points, so that str.lower, str.strip,     *)
(* startswith, "in" and the ordering of str are computed as Python does.   *)
(* A path below the root is the sequence of its components.                *)
(***************************************************************************)
EXTENDS Integers, Sequences, FiniteSets

\* ---------------------------------------------------------------- bounds
MaxDepthBound == 2     \* max_depth is drawn from 0..MaxDepthBound
MaxItemsBound == 2     \* max_items is drawn from 1..MaxItemsBound
MaxEntries    == 4     \* directory entries below the root, over the whole tree
MaxLimit      == 2     \* limit is drawn from 1..MaxLimit
MaxBatch      == 3     \* files one selection holds at most

\* ------------------------------------------------------------- strings
Slash == 47
Dot   == 46

\* str.lower on one code point (ASCII letters)
Lower(c) == IF c \in 65..90 THEN c + 32 ELSE c

\* str.lower
LowerStr(s) == [i \in 1..Len(s) |-> Lower(s[i])]

\* code points str.strip removes
IsSpace(c) == c \in {9, 10, 11, 12, 13, 28, 29, 30, 31, 32}

RECURSIVE LStrip(_)
LStrip(s) == IF s # <<>> /\ IsSpace(Head(s)) THEN LStrip(Tail(s)) ELSE s

RECURSIVE RStrip(_)
RStrip(s) ==
    IF s # <<>> /\ IsSpace(s[Len(s)]) THEN RStrip(SubSeq(s, 1, Len(s) - 1)) ELSE s

\* str.strip
Strip(s) == RStrip(LStrip(s))

\* str.startswith
StartsWith(s, p) == Len(p) <= Len(s) /\ SubSeq(s, 1, Len(p)) = p

\* the substring test  p in s
Contains(s, p) ==
    \E i \in 0..(Len(s) - Len(p)) : SubSeq(s, i + 1, i + Len(p)) = p

\* the order of str: a < b, by code points
RECURSIVE StrLess(_, _)
StrLess(a, b) ==
    IF b = <<>> THEN FALSE
    ELSE IF a = <<>> THEN TRUE
    ELSE IF Head(a) # Head(b) THEN Head(a) < Head(b)
    ELSE StrLess(Tail(a), Tail(b))

\* ---------------------------------------------------------------- paths
\* str(root_path): "/r"
RootStr == <<47, 114>>

\* the components of a relative path joined by "/"
RECURSIVE JoinPath(_)
JoinPath(p) ==
    IF p = <<>> THEN <<>>
    ELSE IF Len(p) = 1 THEN p[1]
    ELSE p[1] \o <<Slash>> \o JoinPath(Tail(p))

\* str(path) of the absolute path of a directory below the root
PathStr(p) == IF p = <<>> THEN RootStr ELSE RootStr \o <<Slash>> \o JoinPath(p)

\* path.name
PathName(p) == IF p = <<>> THEN <<114>> ELSE p[Len(p)]

\* str(dir_path.relative_to(root_path))
RelPathStr(p) == IF p = <<>> THEN <<Dot>> ELSE JoinPath(p)

\* ------------------------------------------------------------ skip_dirs
skip_dirs ==
    {
      <<46, 103, 105, 116>>,   \* '.git'
      <<46, 115, 118, 110>>,   \* '.svn'
      <<46, 104, 103>>,   \* '.hg'
      <<110, 111, 100, 101, 95, 109, 111, 100, 117, 108, 101, 115>>,   \* 'node_modules'
      <<95, 95, 112, 121, 99, 97, 99, 104, 101, 95, 95>>,   \* '__pycache__'
      <<46, 99, 97, 99, 104, 101>>,   \* '.cache'
      <<46, 116, 109, 112>>,   \* '.tmp'
      <<116, 101, 109, 112>>,   \* 'temp'
      <<46, 118, 115, 99, 111, 100, 101>>,   \* '.vscode'
      <<46, 105, 100, 101, 97>>,   \* '.idea'
      <<46, 68, 83, 95, 83, 116, 111, 114, 101>>,   \* '.DS_Store'
      <<76, 105, 98, 114, 97, 114, 121>>,   \* 'Library'
      <<83, 121, 115, 116, 101, 109>>,   \* 'System'
      <<65, 112, 112, 108, 105, 99, 97, 116, 105, 111, 110, 115>>,   \* 'Applications'
      <<46, 84, 114, 97, 115, 104>>,   \* '.Trash'
      <<84, 114, 97, 115, 104>>,   \* 'Trash'
      <<46, 108, 111, 99, 97, 108, 47, 115, 104, 97, 114, 101, 47, 84, 114, 97, 115, 104>>,   \* '.local/share/Trash'
      <<65, 112, 112, 68, 97, 116, 97>>,   \* 'AppData'
      <<87, 105, 110, 100, 111, 119, 115>>,   \* 'Windows'
      <<80, 114, 111, 103, 114, 97, 109, 32, 70, 105, 108, 101, 115>>,   \* 'Program Files'
      <<80, 114, 111, 103, 114, 97, 109, 32, 70, 105, 108, 101, 115, 32, 40, 120, 56, 54, 41>>    \* 'Program Files (x86)'
    }

\* the leaf names a directory entry can have in the model
Names ==
    {
      <<97>>,                              \* 'a'
      <<97, 98>>,                          \* 'ab'
      <<46, 97>>,                          \* '.a'
      <<84, 101, 109, 112>>,               \* 'Temp'
      <<80, 114, 111, 103, 114, 97, 109, 32, 70, 105, 108, 101, 115>>   \* 'Program Files'
    }

VARIABLES
    max_depth,       \* parameter of build_local_directory_index
    max_items,       \* local max_items
    cache,           \* the dict being built: sequence of [key, path] in insertion order
    scanned_count,   \* local scanned_count
    stack,           \* the activations of scan_local_directory, innermost last
    yielded,         \* the number of directory entries os.scandir has yielded so far
    raised,          \* an OSError was raised and swallowed during this build
    pc,              \* "build" while scan_local_directory runs, "scanned" when the
                     \* call of line 149 has returned, "done" once the index is
                     \* returned, "searched" after a call of simple_search on it
    query,           \* simple_search: the argument query of the last call
    limit,           \* simple_search: the argument limit of the last call
    matches,         \* simple_search: the local matches after the sort of line 197
    results,         \* simple_search: the list returned by the last call
    run_pc,          \* run: "source", "files", "dest", "confirm" (steps 1-4),
                     \* "moving" inside move_files, "exit" after the return
    source_dir,      \* run: source_dir
    selected_files,  \* run: selected_files, the names of the chosen files in order
    dest_dir,        \* run: dest_dir
    dest_how,        \* the return of select_directory that gave dest_dir:
                     \* "selected" (lines 349, 358) or "cancelled" (line 340)
    previewed,       \* run: show_move_preview was called
    move_calls,      \* run: the number of calls of move_files
    outcome,         \* run: the message before the return, "none" while running
    pos,             \* move_files: the index of the file the loop is at
    moved_files,     \* move_files: moved_files
    report,          \* move_files: what it printed, one entry per file handled
    move_result,     \* move_files: the value returned, "none" before the return
    src_files,       \* the names of the files in the source directory
    dst_files,       \* the files in the destination directory: name -> "old"
                     \* (there before the run) or "new" (moved there)
    current_path,    \* select_directory: current_path, the components below '/'
    nav_return,      \* select_directory: the path returned
    nav_how,         \* select_directory: the return taken, "selected" (lines 349,
                     \* 358) or "cancelled" (line 340)
    nav_event,       \* select_directory: the last choice or input of the user
    tree,            \* search_files_in_directory: the entries below directory
    listed,          \* search_files_in_directory: the entries iterdir has yielded
    chosen           \* search_files_in_directory: the list returned

navVars == <<current_path, nav_return, nav_how, nav_event>>

fileVars == <<tree, listed, chosen>>

runVars == <<run_pc, source_dir, selected_files, dest_dir, dest_how, previewed,
             move_calls, outcome, pos, moved_files, report, move_result,
             src_files, dst_files>>

vars == <<max_depth, max_items, cache, scanned_count, stack, yielded, raised, pc,
          query, limit, matches, results, runVars, navVars, fileVars>>

buildVars == <<max_depth, max_items, cache, scanned_count, stack, yielded, raised>>

searchVars == <<query, limit, matches, results>>

\* ----------------------------------------------------------------- dict
DictKeys(d) == {d[i].key : i \in 1..Len(d)}

DictValues(d) == {d[i].path : i \in 1..Len(d)}

\* d[k]
DictGet(d, k) == d[CHOOSE i \in 1..Len(d) : d[i].key = k].path

\* d[k] = v : an existing key keeps its position, a new key is appended
DictSet(d, k, v) ==
    IF k \in DictKeys(d)
    THEN [i \in 1..Len(d) |-> IF d[i].key = k THEN [key |-> k, path |-> v] ELSE d[i]]
    ELSE Append(d, [key |-> k, path |-> v])

\* ------------------------------------------------- scan_local_directory
Top == stack[Len(stack)]

Pop == SubSeq(stack, 1, Len(stack) - 1)

Frame(path, depth) == [path |-> path, depth |-> depth, at |-> "enter", seen |-> {}]

\* line 102 without the depth test
ShouldStop_NoDepth(depth) == scanned_count > max_items

\* line 102: the guard at the top of scan_local_directory
ShouldStop(depth) == depth > max_depth \/ scanned_count > max_items

\* line 110 without the test
LimitHit_Never == FALSE

\* line 110: the guard at the top of the loop body
LimitHit == scanned_count > max_items

\* line 114
IsHidden(name) == StartsWith(name, <<Dot>>)

\* line 118
IsSkipped(name) == LowerStr(name) \in skip_dirs

\* lines 125-133: the two insertions for dir_path
CacheInsert(d, p) ==
    DictSet(DictSet(d, LowerStr(PathName(p)), p), LowerStr(RelPathStr(p)), p)

\* no directory (yet)
NoDir == <<<<0>>>>

\* run is not being executed
RunIdle ==
    /\ run_pc = "idle"
    /\ source_dir = NoDir
    /\ selected_files = <<>>
    /\ dest_dir = NoDir
    /\ dest_how = "none"
    /\ previewed = FALSE
    /\ move_calls = 0
    /\ outcome = "none"
    /\ pos = 0
    /\ moved_files = <<>>
    /\ report = <<>>
    /\ move_result = "none"
    /\ src_files = {}
    /\ dst_files = [n \in {} |-> "old"]

\* select_directory is not being executed
NavIdle ==
    /\ current_path = NoDir
    /\ nav_return = NoDir
    /\ nav_how = "none"
    /\ nav_event = "none"

\* search_files_in_directory is not being executed
FileIdle ==
    /\ tree = {}
    /\ listed = {}
    /\ chosen = <<>>

\* no call of simple_search yet
SearchIdle ==
    /\ query = <<>>
    /\ limit = 0
    /\ matches = <<>>
    /\ results = <<>>

Init ==
    /\ max_depth \in 0..MaxDepthBound
    /\ max_items \in 1..MaxItemsBound
    /\ cache = <<>>
    /\ scanned_count = 0
    /\ stack = <<Frame(<<>>, 0)>>
    /\ yielded = 0
    /\ raised = FALSE
    /\ pc = "build"
    /\ SearchIdle
    /\ RunIdle
    /\ NavIdle
    /\ FileIdle

\* the return of one activation; the outermost one returns to line 149
Return ==
    /\ stack' = Pop
    /\ pc' = IF Len(stack) = 1 THEN "scanned" ELSE "build"

\* lines 102-103: too deep, or enough items: return at once
ScanStop ==
    /\ pc = "build" /\ Top.at = "enter"
    /\ ShouldStop(Top.depth)
    /\ Return
    /\ UNCHANGED <<raised, max_depth, max_items, cache, scanned_count, yielded, searchVars, runVars, navVars, fileVars>>

\* line 107: os.scandir(current_path) succeeds
ScanOpen ==
    /\ pc = "build" /\ Top.at = "enter"
    /\ ~ShouldStop(Top.depth)
    /\ stack' = [stack EXCEPT ![Len(stack)].at = "iter"]
    /\ UNCHANGED <<raised, max_depth, max_items, cache, scanned_count, yielded, pc, searchVars, runVars, navVars, fileVars>>

\* lines 107-108 without the handler: the OSError reaches the caller
ScanError_Propagates ==
    /\ pc = "build"
    /\ \/ Top.at = "enter" /\ ~ShouldStop(Top.depth)
       \/ Top.at = "iter"
    /\ stack' = <<>>
    /\ pc' = "failed"
    /\ raised' = TRUE
    /\ UNCHANGED <<max_depth, max_items, cache, scanned_count, yielded, searchVars, runVars, navVars, fileVars>>

\* lines 107-108, 144-146: os.scandir, the iteration or entry.is_dir raises
\* OSError; the handler of this activation swallows it
ScanError ==
    /\ pc = "build"
    /\ \/ Top.at = "enter" /\ ~ShouldStop(Top.depth)
       \/ Top.at = "iter"
    /\ Return
    /\ raised' = TRUE
    /\ UNCHANGED <<max_depth, max_items, cache, scanned_count, yielded, searchVars, runVars, navVars, fileVars>>

\* line 108: the iterator is exhausted
ScanExhausted ==
    /\ pc = "build" /\ Top.at = "iter"
    /\ Return
    /\ UNCHANGED <<raised, max_depth, max_items, cache, scanned_count, yielded, searchVars, runVars, navVars, fileVars>>

\* the entries the iterator can yield next
NextNames == IF yielded < MaxEntries THEN Names \ Top.seen ELSE {}

Yield(name) == [stack EXCEPT ![Len(stack)].seen = @ \cup {name}]

\* lines 110-111: an entry is yielded, but the item limit is exceeded
EntryBreak ==
    /\ pc = "build" /\ Top.at = "iter"
    /\ NextNames # {}
    /\ LimitHit
    /\ Return
    /\ UNCHANGED <<raised, max_depth, max_items, cache, scanned_count, yielded, searchVars, runVars, navVars, fileVars>>

\* lines 114-115: not a directory, or hidden
EntrySkipHidden ==
    /\ pc = "build" /\ Top.at = "iter"
    /\ ~LimitHit
    /\ \E name \in NextNames, is_dir \in BOOLEAN :
         /\ ~is_dir \/ IsHidden(name)
         /\ stack' = Yield(name)
         /\ yielded' = yielded + 1
    /\ UNCHANGED <<raised, max_depth, max_items, cache, scanned_count, pc, searchVars, runVars, navVars, fileVars>>

\* lines 118-119: a member of skip_dirs
EntrySkipListed ==
    /\ pc = "build" /\ Top.at = "iter"
    /\ ~LimitHit
    /\ \E name \in NextNames :
         /\ ~IsHidden(name)
         /\ IsSkipped(name)
         /\ stack' = Yield(name)
         /\ yielded' = yielded + 1
    /\ UNCHANGED <<raised, max_depth, max_items, cache, scanned_count, pc, searchVars, runVars, navVars, fileVars>>

\* lines 121-138: the directory is cached under both keys, counted and scanned
EntryVisit ==
    /\ pc = "build" /\ Top.at = "iter"
    /\ ~LimitHit
    /\ \E name \in NextNames :
         /\ ~IsHidden(name)
         /\ ~IsSkipped(name)
         /\ LET dir_path == Append(Top.path, name)
            IN /\ cache' = CacheInsert(cache, dir_path)
               /\ scanned_count' = scanned_count + 1
               /\ stack' = Append(Yield(name), Frame(dir_path, Top.depth + 1))
               /\ yielded' = yielded + 1
    /\ UNCHANGED <<raised, max_depth, max_items, pc, searchVars, runVars, navVars, fileVars>>

\* line 151: return cache; the parameters and locals of the call are gone
\* (0: no value), the dict is what the caller keeps
ReturnCache ==
    /\ pc = "scanned"
    /\ pc' = "done"
    /\ max_depth' = 0
    /\ max_items' = 0
    /\ scanned_count' = 0
    /\ yielded' = 0
    /\ raised' = FALSE
    /\ UNCHANGED <<cache, stack, searchVars, runVars, navVars, fileVars>>

Build ==
    \/ ScanStop
    \/ ScanOpen
    \/ ScanError
    \/ ScanExhausted
    \/ EntryBreak
    \/ EntrySkipHidden
    \/ EntrySkipListed
    \/ EntryVisit
    \/ ReturnCache

\* -------------------------------------------------------- simple_search
\* the queries the user types in the model
Queries ==
    {
      <<>>,               \* ''
      <<32>>,             \* ' '
      <<97>>,             \* 'a'
      <<65>>,             \* 'A'
      <<97, 98>>,         \* 'ab'
      <<97, 47, 98>>,     \* 'a/b'
      <<112>>             \* 'p'
    }

\* lines 182-189 without the test of the key
match_score_NoKey(query_lower, key, path) ==
    LET name_only == LowerStr(PathName(path))
    IN IF query_lower = name_only THEN 100
       ELSE IF StartsWith(name_only, query_lower) THEN 90
       ELSE IF Contains(name_only, query_lower) THEN 80
       ELSE 0

\* lines 178-190 without the exact-match branch
match_score_NoExact(query_lower, key, path) ==
    LET name_only == LowerStr(PathName(path))
    IN IF StartsWith(name_only, query_lower) THEN 90
       ELSE IF Contains(name_only, query_lower) THEN 80
       ELSE IF Contains(key, query_lower) THEN 70
       ELSE 0

\* lines 178-190 with the substring test ahead of the prefix test
match_score_ContainsFirst(query_lower, key, path) ==
    LET name_only == LowerStr(PathName(path))
    IN IF query_lower = name_only THEN 100
       ELSE IF Contains(name_only, query_lower) THEN 80
       ELSE IF StartsWith(name_only, query_lower) THEN 90
       ELSE IF Contains(key, query_lower) THEN 70
       ELSE 0

\* lines 178-190: the score of one (key, path) pair, 0 when it does not match
match_score(query_lower, key, path) ==
    LET name_only == LowerStr(PathName(path))
    IN IF query_lower = name_only THEN 100
       ELSE IF StartsWith(name_only, query_lower) THEN 90
       ELSE IF Contains(name_only, query_lower) THEN 80
       ELSE IF Contains(key, query_lower) THEN 70
       ELSE 0

\* lines 177-194: the matches in the iteration order of the dict
RECURSIVE CollectMatches(_, _)
CollectMatches(query_lower, d) ==
    IF d = <<>> THEN <<>>
    ELSE LET score == match_score(query_lower, Head(d).key, Head(d).path)
             rest  == CollectMatches(query_lower, Tail(d))
         IN IF score > 0
            THEN <<[display |-> PathStr(Head(d).path), path |-> Head(d).path,
                    score |-> score]>> \o rest
            ELSE rest

\* line 197 with the key (x[2], x[0]): ascending score
SortKeyLess_Ascending(x, y) ==
    \/ x.score < y.score
    \/ x.score = y.score /\ StrLess(x.display, y.display)

\* line 197: the sort key (-x[2], x[0]) of x is less than that of y
SortKeyLess(x, y) ==
    \/ -x.score < -y.score
    \/ x.score = y.score /\ StrLess(x.display, y.display)

\* list.sort is stable: x goes behind every element whose key is not greater
InsertSorted(s, x) ==
    LET k == Cardinality({i \in 1..Len(s) : ~SortKeyLess(x, s[i])})
    IN SubSeq(s, 1, k) \o <<x>> \o SubSeq(s, k + 1, Len(s))

RECURSIVE SortMatches(_)
SortMatches(s) ==
    IF s = <<>> THEN <<>>
    ELSE InsertSorted(SortMatches(SubSeq(s, 1, Len(s) - 1)), s[Len(s)])

\* line 200 with matches[:limit + 1]
Truncate_OneMore(m, n) ==
    LET k == IF n + 1 < Len(m) THEN n + 1 ELSE Len(m)
    IN [i \in 1..k |-> [display |-> m[i].display, path |-> m[i].path]]

\* line 200: matches[:limit] without the score
Truncate(m, n) ==
    LET k == IF n < Len(m) THEN n ELSE Len(m)
    IN [i \in 1..k |-> [display |-> m[i].display, path |-> m[i].path]]

\* line 170 without the guard
IsBlank_Never(q) == FALSE

\* line 170: not query.strip()
IsBlank(q) == Strip(q) = <<>>

\* lines 170-200, consuming the entries of the index it reports
SimpleSearch_Consuming ==
    /\ pc \in {"done", "searched"}
    /\ \E q \in Queries, n \in 1..MaxLimit :
         /\ query' = q
         /\ limit' = n
         /\ matches' = IF IsBlank(q) THEN <<>>
                       ELSE SortMatches(CollectMatches(LowerStr(q), cache))
         /\ results' = IF IsBlank(q) THEN <<>> ELSE Truncate(matches', n)
         /\ cache' = IF matches' = <<>> THEN cache
                     ELSE SelectSeq(cache, LAMBDA c : c.path # matches'[1].path)
    /\ pc' = "searched"
    /\ UNCHANGED <<raised, max_depth, max_items, scanned_count, stack, yielded, runVars, navVars, fileVars>>

\* lines 170-200, on the index the build returned
SimpleSearch ==
    /\ pc \in {"done", "searched"}
    /\ \E q \in Queries, n \in 1..MaxLimit :
         /\ query' = q
         /\ limit' = n
         /\ matches' = IF IsBlank(q) THEN <<>>
                       ELSE SortMatches(CollectMatches(LowerStr(q), cache))
         /\ results' = IF IsBlank(q) THEN <<>> ELSE Truncate(matches', n)
    /\ pc' = "searched"
    /\ UNCHANGED <<buildVars, runVars, navVars, fileVars>>

Next == Build \/ SimpleSearch

Spec == Init /\ [][Next]_vars

\* one thread of control runs the build without pause until it returns
FairSpec == Spec /\ WF_vars(Build)

\* ------------------------------------------------------ run, move_files
\* the directories select_directory can return: the home directory '/h', its
\* subdirectory '/h/a' and '/h/l', a symbolic link to '/h/a'
HomeDir == <<<<104>>>>

SubDir == <<<<104>>, <<97>>>>

LinkDir == <<<<104>>, <<108>>>>

RunDirs == {HomeDir, SubDir, LinkDir}

\* the names of the files of the source directory: 'f', 'g', 'k'
FileNames == {<<102>>, <<103>>, <<107>>}

\* Path.resolve with the symbolic links followed
Resolve_Unresolved(p) == p

\* Path.resolve
Resolve(p) == IF p = LinkDir THEN SubDir ELSE p

\* the lists select_files can return: existing files of the directory, none twice
Batches ==
    {b \in UNION {[1..n -> FileNames] : n \in 0..MaxBatch} :
       \A i \in 1..Len(b), j \in 1..Len(b) : b[i] = b[j] => i = j}

\* line 674 always false
NothingSelected_Never(files) == FALSE

\* line 674: not selected_files
NothingSelected(files) == files = <<>>

\* the state in which run is entered: every file is in the source directory,
\* the destination directory holds any of the names
RunInit ==
    /\ run_pc = "source"
    /\ source_dir = NoDir
    /\ selected_files = <<>>
    /\ dest_dir = NoDir
    /\ dest_how = "none"
    /\ previewed = FALSE
    /\ move_calls = 0
    /\ outcome = "none"
    /\ pos = 0
    /\ moved_files = <<>>
    /\ report = <<>>
    /\ move_result = "none"
    /\ src_files = FileNames
    /\ \E S \in SUBSET FileNames : dst_files = [n \in S |-> "old"]
    /\ max_depth = 0
    /\ max_items = 0
    /\ cache = <<>>
    /\ scanned_count = 0
    /\ stack = <<>>
    /\ yielded = 0
    /\ raised = FALSE
    /\ pc = "idle"
    /\ SearchIdle
    /\ NavIdle
    /\ FileIdle

moverVars == <<pos, moved_files, report, move_result, src_files, dst_files>>

\* line 666: select_directory returns the source directory
RunSelectSource ==
    /\ run_pc = "source"
    /\ \E d \in RunDirs : source_dir' = d
    /\ run_pc' = "files"
    /\ UNCHANGED <<selected_files, dest_dir, dest_how, previewed, move_calls,
                   outcome, moverVars>>
    /\ UNCHANGED <<buildVars, pc, searchVars, navVars, fileVars>>

\* lines 671-676: select_files returns no file: "No files selected. Exiting."
RunNoFiles ==
    /\ run_pc = "files"
    /\ \E b \in Batches :
         /\ NothingSelected(b)
         /\ selected_files' = b
    /\ outcome' = "no_files"
    /\ run_pc' = "exit"
    /\ UNCHANGED <<source_dir, dest_dir, dest_how, previewed, move_calls, moverVars>>
    /\ UNCHANGED <<buildVars, pc, searchVars, navVars, fileVars>>

\* lines 671-674: select_files returns files
RunSelectFiles ==
    /\ run_pc = "files"
    /\ \E b \in Batches :
         /\ ~NothingSelected(b)
         /\ selected_files' = b
    /\ run_pc' = "dest"
    /\ UNCHANGED <<source_dir, dest_dir, dest_how, previewed, move_calls,
                   outcome, moverVars>>
    /\ UNCHANGED <<buildVars, pc, searchVars, navVars, fileVars>>

\* lines 681-686: the destination resolves to the source directory
RunSameDir ==
    /\ run_pc = "dest"
    /\ \E d \in RunDirs, how \in {"selected", "cancelled"} :
         /\ Resolve(source_dir) = Resolve(d)
         /\ dest_dir' = d
         /\ dest_how' = how
    /\ outcome' = "same_dir"
    /\ run_pc' = "exit"
    /\ UNCHANGED <<source_dir, selected_files, previewed, move_calls, moverVars>>
    /\ UNCHANGED <<buildVars, pc, searchVars, navVars, fileVars>>

\* lines 681-692: another directory: the preview is shown
RunSelectDest ==
    /\ run_pc = "dest"
    /\ \E d \in RunDirs, how \in {"selected", "cancelled"} :
         /\ Resolve(source_dir) # Resolve(d)
         /\ dest_dir' = d
         /\ dest_how' = how
    /\ previewed' = TRUE
    /\ run_pc' = "confirm"
    /\ UNCHANGED <<source_dir, selected_files, move_calls, outcome, moverVars>>
    /\ UNCHANGED <<buildVars, pc, searchVars, navVars, fileVars>>

\* lines 695-696: the user confirms; move_files is entered (line 615)
RunConfirm ==
    /\ run_pc = "confirm"
    /\ move_calls' = move_calls + 1
    /\ pos' = 1
    /\ moved_files' = <<>>
    /\ run_pc' = "moving"
    /\ UNCHANGED <<source_dir, selected_files, dest_dir, dest_how, previewed,
                   outcome, report, move_result, src_files, dst_files>>
    /\ UNCHANGED <<buildVars, pc, searchVars, navVars, fileVars>>

\* lines 697-699: "Move operation cancelled"
RunDecline ==
    /\ run_pc = "confirm"
    /\ outcome' = "declined"
    /\ run_pc' = "exit"
    /\ UNCHANGED <<source_dir, selected_files, dest_dir, dest_how, previewed,
                   move_calls, moverVars>>
    /\ UNCHANGED <<buildVars, pc, searchVars, navVars, fileVars>>

\* lines 701-703: KeyboardInterrupt at one of the four steps or at the
\* overwrite question of line 622: "Operation cancelled by user"
RunInterrupt ==
    /\ \/ run_pc \in {"source", "files", "dest", "confirm"}
       \/ /\ run_pc = "moving"
          /\ pos <= Len(selected_files)
          /\ selected_files[pos] \in DOMAIN dst_files
    /\ outcome' = "interrupted"
    /\ run_pc' = "exit"
    /\ UNCHANGED <<source_dir, selected_files, dest_dir, dest_how, previewed,
                   move_calls, moverVars>>
    /\ UNCHANGED <<buildVars, pc, searchVars, navVars, fileVars>>

\* the file the loop of move_files is at
CurrentFile == selected_files[pos]

\* lines 621-627: the name exists at the destination, the user declines
MoveSkip ==
    /\ run_pc = "moving"
    /\ pos <= Len(selected_files)
    /\ CurrentFile \in DOMAIN dst_files
    /\ report' = Append(report, [kind |-> "skipped", name |-> CurrentFile])
    /\ pos' = pos + 1
    /\ UNCHANGED <<run_pc, source_dir, selected_files, dest_dir, dest_how, previewed,
                   move_calls, outcome, moved_files, move_result, src_files, dst_files>>
    /\ UNCHANGED <<buildVars, pc, searchVars, navVars, fileVars>>

\* lines 618-632: no conflict, or the user agrees to overwrite; shutil.move succeeds
MoveFile ==
    /\ run_pc = "moving"
    /\ pos <= Len(selected_files)
    /\ src_files' = src_files \ {CurrentFile}
    /\ dst_files' = [n \in DOMAIN dst_files \cup {CurrentFile} |->
                       IF n = CurrentFile THEN "new" ELSE dst_files[n]]
    /\ moved_files' = Append(moved_files, CurrentFile)
    /\ report' = Append(report, [kind |-> "moved", name |-> CurrentFile])
    /\ pos' = pos + 1
    /\ UNCHANGED <<run_pc, source_dir, selected_files, dest_dir, dest_how, previewed,
                   move_calls, outcome, move_result>>
    /\ UNCHANGED <<buildVars, pc, searchVars, navVars, fileVars>>

\* lines 618-630, 641-643: dest_file.exists or shutil.move raises; the handler
\* around the loop prints the error and move_files returns False
MoveRaise ==
    /\ run_pc = "moving"
    /\ pos <= Len(selected_files)
    /\ report' = Append(report, [kind |-> "error", name |-> CurrentFile])
    /\ move_result' = FALSE
    /\ outcome' = "move_returned"
    /\ run_pc' = "exit"
    /\ UNCHANGED <<source_dir, selected_files, dest_dir, dest_how, previewed,
                   move_calls, pos, moved_files, src_files, dst_files>>
    /\ UNCHANGED <<buildVars, pc, searchVars, navVars, fileVars>>

\* lines 634-639: the loop is over
MoveReturn ==
    /\ run_pc = "moving"
    /\ pos > Len(selected_files)
    /\ move_result' = (moved_files # <<>>)
    /\ outcome' = "move_returned"
    /\ run_pc' = "exit"
    /\ UNCHANGED <<source_dir, selected_files, dest_dir, dest_how, previewed,
                   move_calls, pos, moved_files, report, src_files, dst_files>>
    /\ UNCHANGED <<buildVars, pc, searchVars, navVars, fileVars>>

RunNext ==
    \/ RunSelectSource
    \/ RunNoFiles
    \/ RunSelectFiles
    \/ RunSameDir
    \/ RunSelectDest
    \/ RunConfirm
    \/ RunDecline
    \/ RunInterrupt
    \/ MoveSkip
    \/ MoveFile
    \/ MoveRaise
    \/ MoveReturn

RunSpec == RunInit /\ [][RunNext]_vars

RunTypeOK ==
    /\ run_pc \in {"source", "files", "dest", "confirm", "moving", "exit"}
    /\ move_calls \in 0..1
    /\ src_files \subseteq FileNames

\* ------------- select_directory, get_directories, search_directories
\* line 469: limit=10
DirSearchLimit == 10

\* pathlib: Path.parent; the parent of the filesystem root is the root
Parent(p) == IF p = <<>> THEN <<>> ELSE SubSeq(p, 1, Len(p) - 1)

\* lines 227-229: the subdirectories the menu lists below p, in the tree
\* '/', '/h', '/h/a', '/h/l'
SubDirsOf(p) == {d \in RunDirs : Len(d) = Len(p) + 1 /\ Parent(d) = p}

\* line 223 and line 239: "Go up" is on the menu below the root, and on the
\* menu of a directory that cannot be listed
GoUpOffered(p, denied) == denied \/ Parent(p) # p

\* line 465: the words that leave the search
QuitWords ==
    { <<113>>,
      <<113, 117, 105, 116>>,
      <<101, 120, 105, 116>>,
      <<>> }

\* line 465: query.lower() in ['q', 'quit', 'exit', '']
IsQuit(q) == LowerStr(q) \in QuitWords

\* the lines the user types at the search prompt in the model:
\* '', ' ', 'q', 'Q', ' QUIT', 'Exit', 'a', ' A ', 'p', 'x', 'qu'
Inputs ==
    { <<>>,
      <<32>>,
      <<113>>,
      <<81>>,
      <<32, 81, 85, 73, 84>>,
      <<69, 120, 105, 116>>,
      <<97>>,
      <<32, 65, 32>>,
      <<112>>,
      <<120>>,
      <<113, 117>> }

\* lines 170-197: the ranked matches of simple_search
RankedMatches(q, d) ==
    IF IsBlank(q) THEN <<>> ELSE SortMatches(CollectMatches(LowerStr(q), d))

\* search_directories returns: its locals are gone
SearchLocalsGone ==
    /\ cache' = <<>>
    /\ query' = <<>>
    /\ limit' = 0
    /\ matches' = <<>>
    /\ results' = <<>>
    /\ UNCHANGED <<max_depth, max_items, scanned_count, stack, yielded, raised>>

\* lines 308-309: select_directory starts in the home directory
NavInit ==
    /\ pc = "browse"
    /\ current_path = HomeDir
    /\ nav_return = NoDir
    /\ nav_how = "none"
    /\ nav_event = "start"
    /\ max_depth = 0
    /\ max_items = 0
    /\ cache = <<>>
    /\ scanned_count = 0
    /\ stack = <<>>
    /\ yielded = 0
    /\ raised = FALSE
    /\ SearchIdle
    /\ RunIdle
    /\ FileIdle

\* lines 353-355: "Go up"
NavGoUp ==
    /\ pc = "browse"
    /\ \E denied \in BOOLEAN : GoUpOffered(current_path, denied)
    /\ current_path' = Parent(current_path)
    /\ nav_event' = "up"
    /\ UNCHANGED <<pc, nav_return, nav_how, buildVars, searchVars, runVars, fileVars>>

\* lines 360-366: a listed subdirectory that is still a directory
NavEnter ==
    /\ pc = "browse"
    /\ \E d \in SubDirsOf(current_path) : current_path' = d
    /\ nav_event' = "enter"
    /\ UNCHANGED <<pc, nav_return, nav_how, buildVars, searchVars, runVars, fileVars>>

\* lines 357-358: "Use this directory"
NavUse ==
    /\ pc = "browse"
    /\ nav_return' = current_path
    /\ nav_how' = "selected"
    /\ nav_event' = "use"
    /\ pc' = "returned"
    /\ UNCHANGED <<current_path, buildVars, searchVars, runVars, fileVars>>

\* lines 339-340, returning the directory the call started in
NavAbandon_ReturnsHome ==
    /\ pc = "browse"
    /\ nav_return' = HomeDir
    /\ nav_how' = "cancelled"
    /\ nav_event' = "abandon"
    /\ pc' = "returned"
    /\ UNCHANGED <<current_path, buildVars, searchVars, runVars, fileVars>>

\* lines 339-340: the menu is abandoned, inquirer.prompt returns None
NavAbandon ==
    /\ pc = "browse"
    /\ nav_return' = current_path
    /\ nav_how' = "cancelled"
    /\ nav_event' = "abandon"
    /\ pc' = "returned"
    /\ UNCHANGED <<current_path, buildVars, searchVars, runVars, fileVars>>

\* lines 345-347 and line 452: "Search directories" calls search_directories,
\* which calls build_local_directory_index(current_path); the parameters of
\* the build take the values of the bounded model
NavSearch ==
    /\ pc = "browse"
    /\ max_depth' \in 0..MaxDepthBound
    /\ max_items' \in 1..MaxItemsBound
    /\ cache' = <<>>
    /\ scanned_count' = 0
    /\ stack' = <<Frame(<<>>, 0)>>
    /\ yielded' = 0
    /\ raised' = FALSE
    /\ pc' = "build"
    /\ nav_event' = "search"
    /\ UNCHANGED <<current_path, nav_return, nav_how, searchVars, runVars, fileVars>>

\* lines 455-458: the index is empty, search_directories returns None
NavNoSubdirs ==
    /\ pc = "done"
    /\ cache = <<>>
    /\ pc' = "browse"
    /\ nav_event' = "no_subdirs"
    /\ SearchLocalsGone
    /\ UNCHANGED <<current_path, nav_return, nav_how, runVars, fileVars>>

\* lines 462-466, going back to the home directory
NavQuit_ToHome ==
    /\ pc = "done"
    /\ cache # <<>>
    /\ \E line \in Inputs : IsQuit(Strip(line))
    /\ pc' = "browse"
    /\ nav_event' = "quit"
    /\ current_path' = HomeDir
    /\ SearchLocalsGone
    /\ UNCHANGED <<nav_return, nav_how, runVars, fileVars>>

\* lines 462-466: a quit word at the prompt, search_directories returns None
NavQuit ==
    /\ pc = "done"
    /\ cache # <<>>
    /\ \E line \in Inputs : IsQuit(Strip(line))
    /\ pc' = "browse"
    /\ nav_event' = "quit"
    /\ SearchLocalsGone
    /\ UNCHANGED <<current_path, nav_return, nav_how, runVars, fileVars>>

\* lines 462-474: a query at the prompt; without a match the loop continues
\* at the prompt, with matches the menu of the results is shown
NavQuery ==
    /\ pc = "done"
    /\ cache # <<>>
    /\ \E line \in Inputs :
         /\ ~IsQuit(Strip(line))
         /\ query' = Strip(line)
         /\ limit' = DirSearchLimit
         /\ matches' = RankedMatches(query', cache)
         /\ results' = Truncate(matches', limit')
    /\ pc' = IF results' = <<>> THEN "done" ELSE "searched"
    /\ nav_event' = IF nav_event = "search" THEN "query" ELSE "requery"
    /\ UNCHANGED <<buildVars, current_path, nav_return, nav_how, runVars, fileVars>>

\* lines 510-514: a result is chosen, select_directory returns it (line 349)
NavChooseResult ==
    /\ pc = "searched"
    /\ \E i \in 1..Len(results) : nav_return' = current_path \o results[i].path
    /\ nav_how' = "selected"
    /\ nav_event' = "result"
    /\ pc' = "returned"
    /\ UNCHANGED <<buildVars, current_path, searchVars, runVars, fileVars>>

\* lines 506-507, building the index again
NavSearchAgain_Rebuild ==
    /\ pc = "searched"
    /\ pc' = "build"
    /\ nav_event' = "again"
    /\ cache' = <<>>
    /\ stack' = <<Frame(<<>>, 0)>>
    /\ max_depth' \in 0..MaxDepthBound
    /\ max_items' \in 1..MaxItemsBound
    /\ UNCHANGED <<scanned_count, yielded, raised, current_path, nav_return,
                   nav_how, searchVars, runVars, fileVars>>

\* lines 499-501 and 506-507: "Search again", or the menu of the results is
\* abandoned: the loop continues at the prompt
NavSearchAgain ==
    /\ pc = "searched"
    /\ pc' = "done"
    /\ nav_event' = "again"
    /\ UNCHANGED <<buildVars, current_path, nav_return, nav_how, searchVars,
                   runVars, fileVars>>

\* lines 508-509: "Browse manually instead", search_directories returns None
NavBrowseManually ==
    /\ pc = "searched"
    /\ pc' = "browse"
    /\ nav_event' = "browse_manually"
    /\ SearchLocalsGone
    /\ UNCHANGED <<current_path, nav_return, nav_how, runVars, fileVars>>

NavNext ==
    \/ NavGoUp
    \/ NavEnter
    \/ NavUse
    \/ NavAbandon
    \/ NavSearch
    \/ ScanStop
    \/ ScanOpen
    \/ ScanError
    \/ ScanExhausted
    \/ EntryBreak
    \/ EntrySkipHidden
    \/ EntrySkipListed
    \/ EntryVisit
    \/ ReturnCache
    \/ NavNoSubdirs
    \/ NavQuit
    \/ NavQuery
    \/ NavChooseResult
    \/ NavSearchAgain
    \/ NavBrowseManually

NavSpec == NavInit /\ [][NavNext]_vars

NavTypeOK ==
    /\ pc \in {"browse", "build", "scanned", "done", "searched", "returned"}
    /\ current_path \in RunDirs \cup {<<>>}
    /\ nav_how \in {"none", "selected", "cancelled"}
    /\ (pc = "returned") = (nav_how # "none")

\* ------------------------------------------- search_files_in_directory
\* line 548: limit=15
FileSearchLimit == 15

\* the entries that can be below the directory in the model: the files 'a',
\* 'A', 'a (b' and '.a', the directory 'Temp' and the file 'Temp/a'
FileA == [path |-> <<<<97>>>>, is_file |-> TRUE]

FileUpperA == [path |-> <<<<65>>>>, is_file |-> TRUE]

FileParen == [path |-> <<<<97, 32, 40, 98>>>>, is_file |-> TRUE]

FileHidden == [path |-> <<<<46, 97>>>>, is_file |-> TRUE]

DirTemp == [path |-> <<<<84, 101, 109, 112>>>>, is_file |-> FALSE]

FileNested == [path |-> <<<<84, 101, 109, 112>>, <<97>>>>, is_file |-> TRUE]

Trees ==
    {t \in SUBSET {FileA, FileUpperA, FileParen, FileHidden, DirTemp, FileNested} :
       FileNested \in t <=> DirTemp \in t}

\* line 529: directory.iterdir() yields the entries directly below directory
IterDir(t) == {e \in t : Len(e.path) = 1}

\* line 544: the words that leave the file search
FileQuitWords ==
    { <<113>>,
      <<113, 117, 105, 116>>,
      <<101, 120, 105, 116>> }

\* line 552: the key of the sort, x[1].name.lower()
NameKeyLess(x, y) ==
    StrLess(LowerStr(PathName(x.path)), LowerStr(PathName(y.path)))

\* list.sort is stable: x goes behind every element whose key is not greater
InsertByName(s, x) ==
    LET k == Cardinality({i \in 1..Len(s) : ~NameKeyLess(x, s[i])})
    IN SubSeq(s, 1, k) \o <<x>> \o SubSeq(s, k + 1, Len(s))

\* lines 551-552: every file of all_files, sorted by its lowercase name
RECURSIVE ListAll(_)
ListAll(d) ==
    IF d = <<>> THEN <<>>
    ELSE InsertByName(ListAll(SubSeq(d, 1, Len(d) - 1)),
                      [display |-> PathStr(d[Len(d)].path), path |-> d[Len(d)].path])

\* the position of the first occurrence of sep in s, 0 if there is none
IndexOf(s, sep) ==
    LET at == {i \in 1..(Len(s) - Len(sep) + 1) :
                 SubSeq(s, i, i + Len(sep) - 1) = sep}
    IN IF at = {} THEN 0 ELSE CHOOSE i \in at : \A j \in at : i <= j

\* line 563: the choice of a file, the page sign, a space, the name and the
\* size in parentheses (the size of every file of the model is '0.0B')
ChoiceLabel(name) ==
    <<128196, 32>> \o name \o <<32, 40>> \o <<48, 46, 48, 66>> \o <<41>>

\* line 588: choice.split(page sign + ' ')[1].split(' (')[0]
NameOfChoice(label) ==
    LET rest == SubSeq(label, 3, Len(label))
        cut  == IndexOf(rest, <<32, 40>>)
    IN IF cut = 0 THEN rest ELSE SubSeq(rest, 1, cut - 1)

\* lines 585-590: the paths of the chosen labels that exist below directory
RECURSIVE SelectedFiles(_, _)
SelectedFiles(labels, t) ==
    IF labels = <<>> THEN <<>>
    ELSE LET file_path == <<NameOfChoice(Head(labels))>>
             rest == SelectedFiles(Tail(labels), t)
         IN IF \E e \in t : e.path = file_path
            THEN <<file_path>> \o rest
            ELSE rest

\* the labels of the results at the positions S, in the order of the menu
RECURSIVE LabelsAt(_, _, _)
LabelsAt(r, S, i) ==
    IF i > Len(r) THEN <<>>
    ELSE (IF i \in S THEN <<ChoiceLabel(PathName(r[i].path))>> ELSE <<>>)
           \o LabelsAt(r, S, i + 1)

\* search_files_in_directory is entered for a directory with some entries
FileInit ==
    /\ pc = "files_scan"
    /\ tree \in Trees
    /\ listed = {}
    /\ chosen = <<>>
    /\ max_depth = 0
    /\ max_items = 0
    /\ cache = <<>>
    /\ scanned_count = 0
    /\ stack = <<>>
    /\ yielded = 0
    /\ raised = FALSE
    /\ SearchIdle
    /\ RunIdle
    /\ NavIdle

\* lines 529-531: the next entry of iterdir; a file that is not hidden is
\* stored under its lowercase name
FileIter ==
    /\ pc = "files_scan"
    /\ \E item \in IterDir(tree) \ listed :
         /\ listed' = listed \cup {item}
         /\ cache' = IF item.is_file /\ ~IsHidden(PathName(item.path))
                     THEN DictSet(cache, LowerStr(PathName(item.path)), item.path)
                     ELSE cache
    /\ UNCHANGED <<pc, tree, chosen, max_depth, max_items, scanned_count, stack,
                   yielded, raised, searchVars, runVars, navVars>>

\* lines 532-534: iterdir raises PermissionError or OSError: return []
FileIterError ==
    /\ pc = "files_scan"
    /\ pc' = "files_returned"
    /\ chosen' = <<>>
    /\ UNCHANGED <<tree, listed, buildVars, searchVars, runVars, navVars>>

\* lines 536-539: no file was found: return []
FileNoFiles ==
    /\ pc = "files_scan"
    /\ listed = IterDir(tree)
    /\ cache = <<>>
    /\ pc' = "files_returned"
    /\ chosen' = <<>>
    /\ UNCHANGED <<tree, listed, buildVars, searchVars, runVars, navVars>>

\* line 541: the loop of the prompt is entered
FilePrompt ==
    /\ pc = "files_scan"
    /\ listed = IterDir(tree)
    /\ cache # <<>>
    /\ pc' = "files_prompt"
    /\ UNCHANGED <<fileVars, buildVars, searchVars, runVars, navVars>>

\* lines 542-545: a quit word at the prompt: return []
FileQuit ==
    /\ pc = "files_prompt"
    /\ \E line \in Inputs : LowerStr(Strip(line)) \in FileQuitWords
    /\ pc' = "files_returned"
    /\ chosen' = <<>>
    /\ UNCHANGED <<tree, listed, buildVars, searchVars, runVars, navVars>>

\* lines 542-556: a query at the prompt is ranked by simple_search, an empty
\* line lists every file; without a match the loop continues at the prompt
FileQuery ==
    /\ pc = "files_prompt"
    /\ \E line \in Inputs :
         /\ LowerStr(Strip(line)) \notin FileQuitWords
         /\ query' = Strip(line)
         /\ limit' = IF query' # <<>> THEN FileSearchLimit ELSE 0
         /\ matches' = IF query' # <<>> THEN RankedMatches(query', cache) ELSE <<>>
         /\ results' = IF query' # <<>> THEN Truncate(matches', limit')
                       ELSE ListAll(cache)
    /\ pc' = IF results' = <<>> THEN "files_prompt" ELSE "files_menu"
    /\ UNCHANGED <<fileVars, buildVars, runVars, navVars>>

\* lines 575-582 and 592: the menu is abandoned, "Search again" is ticked, or
\* nothing is ticked: the loop continues at the prompt
FileSearchAgain ==
    /\ pc = "files_menu"
    /\ pc' = "files_prompt"
    /\ UNCHANGED <<fileVars, buildVars, searchVars, runVars, navVars>>

\* lines 579-593: files or "Done selecting" are ticked: the files whose names
\* are read back from the labels and exist are returned
FileSelect ==
    /\ pc = "files_menu"
    /\ \E S \in SUBSET (1..Len(results)), done \in BOOLEAN :
         /\ chosen' = SelectedFiles(LabelsAt(results, S, 1), tree)
         /\ chosen' # <<>> \/ done
    /\ pc' = "files_returned"
    /\ UNCHANGED <<tree, listed, buildVars, searchVars, runVars, navVars>>

FileNext ==
    \/ FileIter
    \/ FileIterError
    \/ FileNoFiles
    \/ FilePrompt
    \/ FileQuit
    \/ FileQuery
    \/ FileSearchAgain
    \/ FileSelect

FileSpec == FileInit /\ [][FileNext]_vars

FileTypeOK ==
    /\ pc \in {"files_scan", "files_prompt", "files_menu", "files_returned"}
    /\ tree \in Trees
    /\ listed \subseteq IterDir(tree)

\* the directories on which os.scandir has been called and not yet left
Enumerated(st) == {st[i].path : i \in {j \in 1..Len(st) : st[j].at = "iter"}}

\* C22: during one build scanned_count never decreases, and once it exceeds
\* max_items the traversal has halted for good: until the build returns no
\* step inserts a key into the index, counts a directory or calls os.scandir
\* on a directory, at any recursion level.
C22_HaltsOnceOverCap ==
    /\ [][(pc = "build" /\ pc' \in {"build", "scanned"})
            => scanned_count' >= scanned_count]_vars
    /\ [][(pc = "build" /\ scanned_count > max_items)
            => /\ cache' = cache
               /\ scanned_count' = scanned_count
               /\ Enumerated(stack') \subseteq Enumerated(stack)
               /\ Len(stack') < Len(stack)]_vars

\* the cap was exceeded two levels below the root of the build, with the
\* loops of the callers still open
C22_Witness ==
    /\ pc = "build"
    /\ scanned_count > max_items
    /\ Len(stack) >= 2
    /\ Top.at = "iter"

\* directories the build has certainly visited: those of the index and their
\* ancestors below the root of the build (a directory is scanned only after
\* it was counted)
KnownVisited ==
    UNION {{SubSeq(p, 1, k) : k \in 1..Len(p)} : p \in DictValues(cache)}

\* C24: after the build has returned, every visited directory d is the value
\* of its relative-path key: index[lowercase(path of d relative to the root)]
\* = d.
C24_RelativeKeyRetrievable ==
    pc = "done" =>
      \A d \in KnownVisited :
        /\ LowerStr(RelPathStr(d)) \in DictKeys(cache)
        /\ DictGet(cache, LowerStr(RelPathStr(d))) = d

\* ============================================================ navigator

\* C17: leaving the search by "Browse manually instead" or by a quit word
\* (q, quit, exit or an empty line, in any letter case) returns to the
\* browsing menu with current_path as it was when the search was entered:
\* no step taken outside the browsing menu changes current_path, and a step
\* that changes it is "Go up", to the parent, or the entry into a listed
\* subdirectory.
C17_SearchKeepsCurrentPath ==
    /\ [][pc # "browse" => current_path' = current_path]_vars
    /\ [][(pc # "browse" /\ pc' = "browse")
            => nav_event' \in {"quit", "browse_manually", "no_subdirs"}]_vars
    /\ [][current_path' # current_path
            => /\ pc = "browse"
               /\ pc' = "browse"
               /\ \/ nav_event' = "up" /\ current_path' = Parent(current_path)
                  \/ nav_event' = "enter"
                       /\ current_path' \in SubDirsOf(current_path)]_vars

\* the search was entered below the home directory and left by a quit word
C17_Witness ==
    /\ pc = "browse"
    /\ nav_event = "quit"
    /\ current_path = SubDir

\* the search was left by "Browse manually instead"
C17_WitnessBrowse ==
    /\ pc = "browse"
    /\ nav_event = "browse_manually"
    /\ current_path = SubDir

\* C18: the index is built once per entry into the search, rooted at the
\* current_path of that entry: the entry starts a build on an empty index at
\* the root frame; while the prompt or the results are shown no build starts
\* and the index does not change; the results shown are the ranking of the
\* query against that index, also after "Search again" and after a query
\* without a match; a chosen result is a directory of that index below
\* current_path.
C18_IndexBuiltOncePerEntry ==
    /\ [][(pc = "browse" /\ pc' \notin {"browse", "returned"})
            => /\ pc' = "build"
               /\ cache' = <<>>
               /\ scanned_count' = 0
               /\ stack' = <<Frame(<<>>, 0)>>]_vars
    /\ [][(pc \in {"done", "searched"})
            => /\ pc' \notin {"build", "scanned"}
               /\ (pc' \in {"done", "searched", "returned"}
                     => cache' = cache)]_vars
    /\ []((pc \in {"done", "searched"}
             /\ nav_event \in {"query", "requery", "again"})
            => results = Truncate(RankedMatches(query, cache), DirSearchLimit))
    /\ []((pc = "returned" /\ nav_event = "result")
            => \E i \in 1..Len(cache) :
                 nav_return = current_path \o cache[i].path)

\* a later query of the same stay has been ranked and has matches
C18_Witness ==
    /\ pc = "searched"
    /\ nav_event = "requery"
    /\ results # <<>>
    /\ Len(cache) > 1

\* C19: abandoning the browsing menu returns current_path, the path after
\* the "Go up" and entry steps taken so far, as cancelled; "Use this
\* directory" returns the same current_path as selected; "Go up" at the
\* filesystem root leaves current_path at the root.
C19_BrowsingReturnsCurrentPath ==
    /\ []((pc = "returned" /\ nav_event = "abandon")
            => (nav_how = "cancelled" /\ nav_return = current_path))
    /\ []((pc = "returned" /\ nav_event = "use")
            => (nav_how = "selected" /\ nav_return = current_path))
    /\ [][(pc = "browse" /\ current_path = <<>> /\ nav_event' = "up")
            => current_path' = <<>>]_vars
    /\ [][(pc = "browse" /\ pc' = "returned")
            => (nav_return' = current_path /\ current_path' = current_path)]_vars

\* the menu was abandoned after an entry into a subdirectory
C19_Witness ==
    /\ pc = "returned"
    /\ nav_how = "cancelled"
    /\ nav_return = SubDir

\* "Go up" was chosen at the root, then the menu was abandoned
C19_WitnessRoot ==
    /\ pc = "returned"
    /\ nav_how = "cancelled"
    /\ nav_return = <<>>

\* ======================================================== index build
\* a name that the hidden rule or skip_dirs, compared case-insensitively, excludes
Excluded(name) ==
    \/ name # <<>> /\ name[1] = Dot
    \/ \E s \in skip_dirs : LowerStr(s) = LowerStr(name)

\* C1: no directory at a traversal depth greater than max_depth has its
\* children enumerated, and none of its children is inserted into the index
\* (the root is at depth 0, a directory of n components at depth n).
C1_NeverPastMaxDepth ==
    /\ \A i \in 1..Len(stack) :
         /\ stack[i].depth = Len(stack[i].path)
         /\ stack[i].at = "iter" => stack[i].depth <= max_depth
         /\ stack[i].seen # {} => stack[i].depth <= max_depth
    /\ pc \in {"build", "scanned"} =>
         \A p \in DictValues(cache) : Len(p) - 1 <= max_depth

\* C1 witness: a directory one level below the cap was reached and the build
\* returned with it in the index, without scanning it
C1_Witness ==
    /\ pc = "scanned"
    /\ \E p \in DictValues(cache) : Len(p) = max_depth + 1

\* C2 (as claimed): at the end of the build the number of directories
\* inserted into the index, scanned_count, is at most max_items.
C2_AtMostMaxItems == pc = "scanned" => scanned_count <= max_items

\* C3 (as claimed): no directory whose name starts with '.' or matches a
\* member of skip_dirs case-insensitively, and no directory below one, is a
\* value of the index.
C3_SkippedAbsent ==
    \A p \in DictValues(cache) : \A i \in 1..Len(p) : ~Excluded(p[i])

\* C15: the build ends and returns the index collected so far, also when
\* directories raise an error on enumeration: the error ends the scan of that
\* directory only, never reaches the caller, and takes nothing out of the index.
C15_BuildCompletes ==
    /\ <>(pc = "done")
    /\ [][(pc = "build" /\ Len(stack') < Len(stack))
            => (cache' = cache /\ pc' \in {"build", "scanned"})]_vars
    /\ [][pc = "scanned" => (pc' = "done" /\ cache' = cache)]_vars

\* C15 witness: a build in which an error was raised has come to its end
\* with directories in the index
C15_Witness ==
    /\ pc = "scanned"
    /\ raised
    /\ cache # <<>>

\* ============================================================= ranking
\* the lowercase query of the last call
QueryLower == LowerStr(query)

\* the lowercase leaf name of a path
NameLower(p) == LowerStr(p[Len(p)])

IsPrefixOf(q, s) == Len(q) <= Len(s) /\ \A i \in 1..Len(q) : s[i] = q[i]

IsInfixOf(q, s) ==
    \E off \in 0..(Len(s) - Len(q)) : \A i \in 1..Len(q) : s[off + i] = q[i]

\* the tier the precedence of the claim gives the pair c = (key, path); 0: excluded
Tier(c) ==
    IF QueryLower = NameLower(c.path) THEN 100
    ELSE IF IsPrefixOf(QueryLower, NameLower(c.path)) THEN 90
    ELSE IF IsInfixOf(QueryLower, NameLower(c.path)) THEN 80
    ELSE IF IsInfixOf(QueryLower, c.key) THEN 70
    ELSE 0

\* the pairs of the index that match the last query
Matching == {k \in 1..Len(cache) : Tier(cache[k]) > 0}

\* the pairs of the index that match the last query and hold the path p
MatchingOf(p) == {k \in Matching : cache[k].path = p}

\* the best tier of the path p over its keys
BestTier(p) ==
    IF MatchingOf(p) = {} THEN 0
    ELSE CHOOSE t \in {Tier(cache[k]) : k \in MatchingOf(p)} :
           \A k \in MatchingOf(p) : Tier(cache[k]) <= t

\* the positions of the returned list that hold the path p
Occurrences(p) == {i \in 1..Len(results) : results[i].path = p}

\* the query of the last call has only whitespace, or nothing
QueryIsBlank == \A i \in 1..Len(query) : query[i] \in {9, 10, 11, 12, 13, 32}

\* the display path of every returned entry is the string of its path
DisplayIsPath == \A i \in 1..Len(results) : results[i].display = PathStr(results[i].path)

\* e is named exactly as the query, f only starts with it
ExactAndPrefix(e, f) ==
    /\ NameLower(e) = QueryLower
    /\ IsPrefixOf(QueryLower, NameLower(f))
    /\ NameLower(f) # QueryLower

\* C4: when the name of e equals the query case-insensitively and the name of
\* f only starts with it, every occurrence of e in the returned list is before
\* every occurrence of f, and f is never returned while an occurrence of e is
\* cut off by the limit.
C4_ExactBeforePrefix ==
    pc = "searched" =>
      \A e \in DictValues(cache), f \in DictValues(cache) :
        ExactAndPrefix(e, f) =>
          \A j \in Occurrences(f) :
            /\ \A i \in Occurrences(e) : i < j
            /\ Cardinality(Occurrences(e)) = Cardinality(MatchingOf(e))

\* C4 witness: an exact match and a prefix match are both returned
C4_Witness ==
    /\ pc = "searched"
    /\ \E i \in 1..Len(results), j \in 1..Len(results) :
         ExactAndPrefix(results[i].path, results[j].path)

\* C5: every (key, path) pair of the index gets one tier by first-match
\* precedence, 100 name equal, 90 name prefix, 80 name substring, 70 key
\* substring, and is excluded otherwise: the scored matches are the pairs of
\* tier above 0, each with its tier.
C5_TierPrecedence ==
    (pc = "searched" /\ ~QueryIsBlank) =>
      /\ Len(matches) = Cardinality(Matching)
      /\ \A p \in DictValues(cache) :
           LET at == {i \in 1..Len(matches) : matches[i].path = p}
           IN /\ Cardinality(at) = Cardinality(MatchingOf(p))
              /\ \A i \in at : matches[i].score = BestTier(p)
      /\ \A k \in Matching : Tier(cache[k]) = BestTier(cache[k].path)

\* C5 witness: one query gives an exact match, a match through the
\* relative-path key only, and an excluded pair
C5_Witness ==
    /\ pc = "searched"
    /\ \E i \in 1..Len(matches) : matches[i].score = 100
    /\ \E i \in 1..Len(matches) : matches[i].score = 70
    /\ Len(matches) < Len(cache)

\* C5 witness: a prefix match and a substring match of the name
C5_WitnessName ==
    /\ pc = "searched"
    /\ \E i \in 1..Len(matches) : matches[i].score = 90
    /\ \E i \in 1..Len(matches) : matches[i].score = 80

\* C6: the returned list is in descending tier and, within one tier, in
\* ascending order of the display path.
C6_Ordered ==
    pc = "searched" =>
      /\ DisplayIsPath
      /\ \A i \in 1..(Len(results) - 1) :
           LET a == results[i]
               b == results[i + 1]
           IN \/ BestTier(a.path) > BestTier(b.path)
              \/ /\ BestTier(a.path) = BestTier(b.path)
                 /\ ~StrLess(b.display, a.display)

\* C6 witness: the returned list has a tier step, or two paths of one tier
C6_Witness ==
    /\ pc = "searched"
    /\ Len(results) >= 2
    /\ BestTier(results[1].path) > BestTier(results[2].path)

C6_WitnessTie ==
    /\ pc = "searched"
    /\ Len(results) >= 2
    /\ BestTier(results[1].path) = BestTier(results[2].path)
    /\ StrLess(results[1].display, results[2].display)

\* C7 (as claimed): no path appears more than once in the returned list.
C7_NoDuplicatePath ==
    pc = "searched" =>
      \A i \in 1..Len(results), j \in 1..Len(results) :
        results[i].path = results[j].path => i = j

\* a returned entry r ranks no lower than the pair of path p
RanksNoLower(r, p) ==
    \/ BestTier(r.path) > BestTier(p)
    \/ BestTier(r.path) = BestTier(p) /\ ~StrLess(PathStr(p), r.display)

\* C8: at most limit entries are returned, and they are the first limit
\* elements of the ordered list of all matches: every match is returned when
\* they fit, and no returned entry ranks lower than an omitted match.
C8_FirstLimit ==
    (pc = "searched" /\ ~QueryIsBlank) =>
      /\ Len(results) <= limit
      /\ Len(results) = (IF Cardinality(Matching) < limit
                         THEN Cardinality(Matching) ELSE limit)
      /\ \A i \in 1..Len(results) : BestTier(results[i].path) > 0
      /\ \A p \in DictValues(cache) :
           /\ Cardinality(Occurrences(p)) <= Cardinality(MatchingOf(p))
           /\ Cardinality(Occurrences(p)) < Cardinality(MatchingOf(p)) =>
                \A i \in 1..Len(results) : RanksNoLower(results[i], p)

\* C8 witness: more pairs match than the limit admits
C8_Witness ==
    /\ pc = "searched"
    /\ Cardinality(Matching) > limit
    /\ Len(results) = limit

\* the pairs of the index whose lowercase leaf name or key contains the
\* lowercase query
Containing ==
    {k \in 1..Len(cache) :
       \/ IsInfixOf(QueryLower, NameLower(cache[k].path))
       \/ IsInfixOf(QueryLower, cache[k].key)}

\* every returned path is the value of a containing pair, and when the
\* containing pairs fit into the limit every value of one is returned
SoundAndComplete ==
    /\ \A i \in 1..Len(results) :
         \E k \in Containing : cache[k].path = results[i].path
    /\ Cardinality(Containing) <= limit =>
         \A k \in Containing : Occurrences(cache[k].path) # {}

\* C25 as stated: simple_search is sound and complete with respect to the
\* index for every query: every returned path is an index value whose
\* lowercase leaf name or key contains the lowercase query, and when at most
\* limit pairs contain it, every such value is returned.
C25_SoundAndComplete ==
    pc = "searched" => SoundAndComplete

\* C25 amended: the same for every query that is not blank (a blank query
\* is contained in every key and returns nothing).
C25_SoundAndCompleteNonBlank ==
    (pc = "searched" /\ ~QueryIsBlank) => SoundAndComplete

\* every pair that contains the query fits into the limit, and one of the
\* returned directories contains it in its relative path only
C25_Witness ==
    /\ pc = "searched"
    /\ ~QueryIsBlank
    /\ Containing # {}
    /\ Cardinality(Containing) <= limit
    /\ \E i \in 1..Len(results) :
         ~IsInfixOf(QueryLower, NameLower(results[i].path))

\* C9: an empty or whitespace-only query returns the empty list.
C9_BlankQueryEmpty ==
    (pc = "searched" /\ QueryIsBlank) => results = <<>>

\* C9 witness: a whitespace query on an index with a name that holds a space
C9_Witness ==
    /\ pc = "searched"
    /\ query = <<32>>
    /\ \E p \in DictValues(cache) : IsInfixOf(<<32>>, NameLower(p))
    /\ results = <<>>

\* C9 witness: the empty query on an index that is not empty
C9_WitnessEmpty ==
    /\ pc = "searched"
    /\ query = <<>>
    /\ cache # <<>>
    /\ results = <<>>

C11_CaseInsensitiveTieBreak ==
    pc = "searched" =>
      \A i \in 1..(Len(results) - 1) :
        BestTier(results[i].path) = BestTier(results[i + 1].path) =>
          ~StrLess(LowerStr(results[i + 1].display), LowerStr(results[i].display))

\* ========================================================== file search
\* the files directly below the directory that are not hidden
ImmediateFiles ==
    {e.path : e \in {x \in tree : /\ x.is_file
                                  /\ Len(x.path) = 1
                                  /\ ~IsHidden(PathName(x.path))}}

\* the tier of the file p for the last query
FileTier(p) == Tier([key |-> NameLower(p), path |-> p])

\* C21: the file search works over the files directly below the directory
\* that are not hidden; the results of a non-empty query are at most 15, all
\* match, and come in the tier precedence of the directory search; an empty
\* query lists all of those files, sorted by name.
C21_FileSearchOverImmediateFiles ==
    pc = "files_menu" =>
      /\ \A i \in 1..Len(results) : results[i].path \in ImmediateFiles
      /\ query # <<>> =>
           /\ Len(results) <= FileSearchLimit
           /\ \A i \in 1..Len(results) : FileTier(results[i].path) > 0
           /\ \A i \in 1..Len(results), j \in 1..Len(results) :
                i < j => FileTier(results[i].path) >= FileTier(results[j].path)
      /\ query = <<>> =>
           /\ {results[i].path : i \in 1..Len(results)} = ImmediateFiles
           /\ \A i \in 1..Len(results), j \in 1..Len(results) :
                i < j => ~StrLess(NameLower(results[j].path),
                                  NameLower(results[i].path))

\* ==================================================== workflow and move
\* the directory a returned path stands for
RealDir(p) == IF p = <<<<104>>, <<108>>>> THEN <<<<104>>, <<97>>>> ELSE p

\* no file has left the source directory or reached the destination
NothingMoved ==
    /\ src_files = FileNames
    /\ \A n \in DOMAIN dst_files : dst_files[n] = "old"

\* C12 (as claimed): a failure while moving one file does not abort the batch:
\* when move_files returns, every file of the batch has been handled.
C12_FailureDoesNotAbort ==
    (run_pc = "exit" /\ outcome = "move_returned") =>
      Len(report) = Len(selected_files)

\* C13 (as claimed): a file whose overwrite the user declines is reported as
\* skipped and stays at its place, the file at the destination stays as it
\* was, and the remaining files of the batch are handled in input order.
C13_DeclineSkipsAndContinues ==
    /\ \A i \in 1..Len(report) :
         /\ report[i].name = selected_files[i]
         /\ report[i].kind = "skipped" =>
              /\ report[i].name \in src_files
              /\ report[i].name \in DOMAIN dst_files
              /\ dst_files[report[i].name] = "old"
              /\ \A j \in 1..Len(moved_files) : moved_files[j] # report[i].name
    /\ (outcome = "move_returned" /\ \E i \in 1..Len(report) : report[i].kind = "skipped")
         => Len(report) = Len(selected_files)

\* C14: when the source and the destination directory resolve to the same
\* path, run ends before the preview and before move_files, and no file is
\* moved or changed.
C14_SameDirectoryAborts ==
    (dest_dir # NoDir /\ RealDir(source_dir) = RealDir(dest_dir)) =>
      /\ run_pc = "exit"
      /\ outcome = "same_dir"
      /\ ~previewed
      /\ move_calls = 0
      /\ NothingMoved

\* C14 witness: the destination is the symbolic link to the source directory
C14_Witness ==
    /\ run_pc = "exit"
    /\ source_dir # dest_dir
    /\ dest_dir # NoDir
    /\ RealDir(source_dir) = RealDir(dest_dir)

\* C16 (as claimed): when the destination Navigator was abandoned, move_files
\* is not called and no file is moved.
C16_CancelledDestNoMove ==
    dest_how = "cancelled" => (move_calls = 0 /\ NothingMoved)

\* C23: in every execution of run the steps come in the order source
\* directory, files, destination directory, preview and confirmation, move;
\* move_files is called at most once, and only after a source directory was
\* returned, a non-empty list of files was selected, a destination that
\* resolves differently from the source was returned and the preview was
\* confirmed; a run that ends with a "no" or with an interrupt has moved no
\* file.
C23_OrderedStepsNoMoveOnCancel ==
    /\ selected_files # <<>> => source_dir # NoDir
    /\ dest_dir # NoDir => selected_files # <<>>
    /\ previewed => (dest_dir # NoDir /\ RealDir(source_dir) # RealDir(dest_dir))
    /\ move_calls <= 1
    /\ move_calls = 1 => previewed
    /\ outcome \in {"declined", "interrupted"} => NothingMoved

\* C26: when move_files has returned, its result is true if and only if at
\* least one file of the batch was moved to the destination.
C26_TrueIffMoved ==
    (run_pc = "exit" /\ outcome = "move_returned") =>
      (move_result = (\E n \in DOMAIN dst_files : dst_files[n] = "new"))

\* C20: when select_files returns no file, run ends without asking for a
\* destination, without calling move_files and without moving a file, and
\* not with an error.
C20_EmptySelectionHalts ==
    (run_pc \notin {"source", "files"} /\ selected_files = <<>>) =>
      /\ run_pc = "exit"
      /\ outcome \in {"no_files", "interrupted"}
      /\ dest_dir = NoDir
      /\ ~previewed
      /\ move_calls = 0
      /\ NothingMoved

\* C20 witness: the selection was empty
C20_Witness ==
    /\ run_pc = "exit"
    /\ outcome = "no_files"
    /\ source_dir # NoDir

TypeOK ==
    /\ max_depth \in 0..MaxDepthBound
    /\ max_items \in 0..MaxItemsBound
    /\ scanned_count \in Nat
    /\ yielded \in 0..MaxEntries
    /\ pc \in {"build", "scanned", "done", "searched"}
    /\ (pc = "build") = (stack # <<>>)
====
